---- MODULE Spec2Model ----
(***************************************************************************)
(* Derived-status rules and relational structure of the dataverse apps:   *)
(* accruals (dataverse_contracts/models/accruals.py), education threads   *)
(* (dataverse_threads/models/education_threads.py) and contracts          *)
(* (dataverse_contracts/models/contracts.py, contracts/models.py).        *)
(*                                                                         *)
(* Time is counted in ticks; a calendar day is TicksPerDay ticks.  A      *)
(* DateTimeField holds a tick, a DateField holds a day number, and        *)
(* Now().cast('date') is the day the current tick falls in.               *)
(***************************************************************************)
EXTENDS Integers, FiniteSets

VARIABLES now, accruals, accrual_seq, threads, thread_seq, contracts, contract_seq,
          response

vars == <<now, accruals, accrual_seq, threads, thread_seq, contracts, contract_seq,
          response>>

(***************************************************************************)
(* Bounds of the model                                                     *)
(***************************************************************************)
TicksPerDay == 2

MaxDay == 2

MaxAccruals == 1

MaxThreads == 1

MaxContracts == 3

(***************************************************************************)
(* Values                                                                  *)
(***************************************************************************)
\* SQL NULL / Python None of a nullable column; every stored value is >= 0.
NULL == 0 - 1

\* No row is stored under this primary key.
NoRow == [stored |-> FALSE]

\* What the last request gave back: nothing for a request that was carried out
\* and returns no value, otherwise the value returned or the error raised.
NoResponse == [op |-> "none"]

\* timedelta(days=30) / DurationField(default='30 days'), in ticks.
OverdueDays == 30

ThirtyDays == OverdueDays * TicksPerDay

\* The first tick of the observed period and the day it falls in.
Epoch == ThirtyDays + TicksPerDay

MaxNow == Epoch + (MaxDay + 1) * TicksPerDay - 1

\* Now().cast('date') / timezone.now().date(): the day tick t falls in.
DateOf(t) == t \div TicksPerDay

Today == DateOf(now)

FirstDay == DateOf(Epoch)

\* Days a DateField is given in the model: the observed period.
Days == FirstDay .. (FirstDay + MaxDay)

\* Timestamps a DateTimeField is given in the model: one tick more than, exactly
\* and one tick less than thirty days before the observed period starts, the
\* first tick of the period, and the tick after it.
Stamps == {Epoch - ThirtyDays - 1, Epoch - ThirtyDays, Epoch - ThirtyDays + 1,
           Epoch, Epoch + 1}

(***************************************************************************)
(* Accruals                                                                *)
(***************************************************************************)
AccrualIds == 1 .. MaxAccruals

\* contract_id is a PositiveIntegerField (the ForeignKey to BaseContract is
\* commented out): it holds any number, here the primary keys a contract may get.
AccrualRows == [stored : {TRUE}, contract_id : 1 .. MaxContracts,
                confirmed_at : Stamps \cup {NULL},
                paid_at : Stamps \cup {NULL}]

StoredAccruals == {i \in AccrualIds : accruals[i].stored}

\* A plausible slip: the confirmation branch is tested before the payment branch.
AccrualStatusConfirmedFirst(a, t) ==
    IF a.confirmed_at # NULL
    THEN IF (t - a.confirmed_at) > ThirtyDays THEN "overdue" ELSE "confirmed"
    ELSE IF a.paid_at # NULL THEN "paid" ELSE "pending"

\* A plausible slip: the overdue branch is missing, a confirmed accrual without
\* a payment falls through to the default.
AccrualStatusNoConfirmed(a, t) ==
    IF a.paid_at # NULL
    THEN "paid"
    ELSE IF a.confirmed_at # NULL /\ (t - a.confirmed_at) > ThirtyDays
         THEN "overdue"
         ELSE "pending"

\* A plausible slip: the age is taken as confirmed_at - now.
AccrualStatusReversedAge(a, t) ==
    IF a.paid_at # NULL
    THEN "paid"
    ELSE IF a.confirmed_at # NULL
         THEN IF (a.confirmed_at - t) > (0 - ThirtyDays) THEN "overdue" ELSE "confirmed"
         ELSE "pending"

\* Accrual.status, evaluated at tick t (timezone.now()).
AccrualStatus(a, t) ==
    IF a.paid_at # NULL
    THEN "paid"
    ELSE IF a.confirmed_at # NULL
         THEN IF (t - a.confirmed_at) > ThirtyDays THEN "overdue" ELSE "confirmed"
         ELSE "pending"

\* A plausible slip: <= instead of < in the annotation's overdue test.
AccrualStatusAnnotationInclusive(a, t) ==
    IF a.paid_at # NULL
    THEN "paid"
    ELSE IF /\ a.confirmed_at # NULL
            /\ a.paid_at = NULL
            /\ a.confirmed_at <= t - ThirtyDays
         THEN "overdue"
         ELSE IF a.confirmed_at # NULL /\ a.paid_at = NULL
              THEN "confirmed"
              ELSE "pending"

\* A plausible slip: the annotation's overdue test compares the wrong way round.
AccrualStatusAnnotationReversed(a, t) ==
    IF a.paid_at # NULL
    THEN "paid"
    ELSE IF /\ a.confirmed_at # NULL
            /\ a.paid_at = NULL
            /\ a.confirmed_at > t - ThirtyDays
         THEN "overdue"
         ELSE IF a.confirmed_at # NULL /\ a.paid_at = NULL
              THEN "confirmed"
              ELSE "pending"

\* AccrualManager.annotate_status: the Case expression, first matching When wins;
\* t is Now().  A comparison with a NULL column is not true.
AccrualStatusAnnotation(a, t) ==
    IF a.paid_at # NULL
    THEN "paid"
    ELSE IF /\ a.confirmed_at # NULL
            /\ a.paid_at = NULL
            /\ a.confirmed_at < t - ThirtyDays
         THEN "overdue"
         ELSE IF a.confirmed_at # NULL /\ a.paid_at = NULL
              THEN "confirmed"
              ELSE "pending"

\* AccrualManager.by_status(status) at tick t (Now()): the stored accruals the
\* Q filter of that status lets through, none for a status that has no filter.
ByStatus(status, t) ==
    IF status = "paid"
    THEN {i \in StoredAccruals : accruals[i].paid_at # NULL}
    ELSE IF status = "confirmed"
    THEN {i \in StoredAccruals :
             accruals[i].confirmed_at # NULL /\ accruals[i].paid_at = NULL}
    ELSE IF status = "overdue"
    THEN {i \in StoredAccruals :
             /\ accruals[i].confirmed_at # NULL
             /\ accruals[i].confirmed_at < t - ThirtyDays
             /\ accruals[i].paid_at = NULL}
    ELSE IF status = "pending"
    THEN {i \in StoredAccruals :
             accruals[i].confirmed_at = NULL /\ accruals[i].paid_at = NULL}
    ELSE {}

\* An accrual is added through the admin form; the primary key comes from the
\* table's sequence and is never reused.
CreateAccrual(k, c, p) ==
    /\ accrual_seq < MaxAccruals
    /\ accrual_seq' = accrual_seq + 1
    /\ accruals' = [accruals EXCEPT ![accrual_seq + 1] =
                        [stored |-> TRUE, contract_id |-> k,
                         confirmed_at |-> c, paid_at |-> p]]
    /\ UNCHANGED <<now, threads, thread_seq, contracts, contract_seq>>
    /\ response' = NoResponse

\* A stored accrual is edited through the admin form: either timestamp may be
\* set, moved or cleared, and contract_id may be given any number.
SaveAccrual(i, k, c, p) ==
    /\ accruals[i].stored
    /\ accruals' = [accruals EXCEPT ![i] =
                        [stored |-> TRUE, contract_id |-> k,
                         confirmed_at |-> c, paid_at |-> p]]
    /\ UNCHANGED <<now, accrual_seq, threads, thread_seq, contracts, contract_seq>>
    /\ response' = NoResponse

DeleteAccrual(i) ==
    /\ accruals[i].stored
    /\ accruals' = [accruals EXCEPT ![i] = NoRow]
    /\ UNCHANGED <<now, accrual_seq, threads, thread_seq, contracts, contract_seq>>
    /\ response' = NoResponse

\* The clock advances by one tick.
Tick ==
    /\ now < MaxNow
    /\ now' = now + 1
    /\ UNCHANGED <<accruals, accrual_seq, threads, thread_seq, contracts, contract_seq>>
    /\ response' = NoResponse

(***************************************************************************)
(* Education threads                                                       *)
(***************************************************************************)
ThreadIds == 1 .. MaxThreads

\* start_date and end_date are DateFields without null=True: a stored thread
\* has both.
ThreadRows == [stored : {TRUE}, start_date : Days, end_date : Days,
               is_open_start : BOOLEAN, is_open_end : BOOLEAN]

StoredThreads == {i \in ThreadIds : threads[i].stored}

\* A plausible slip: the flag rules come after the date rules.
ThreadStatusDatesFirst(th, d) ==
    IF ~th.is_open_start /\ ~th.is_open_end /\ th.start_date <= d /\ th.end_date >= d
    THEN "active"
    ELSE IF th.start_date > d
    THEN "upcoming"
    ELSE IF th.end_date < d
    THEN "expired"
    ELSE IF th.is_open_start /\ th.is_open_end
    THEN "open"
    ELSE IF th.is_open_start /\ ~th.is_open_end
    THEN "open_start"
    ELSE IF ~th.is_open_start /\ th.is_open_end
    THEN "open_end"
    ELSE "unknown"

\* A plausible slip: the two one-sided statuses are exchanged.
ThreadStatusSwapped(th, d) ==
    IF th.is_open_start /\ th.is_open_end
    THEN "open"
    ELSE IF th.is_open_start /\ ~th.is_open_end
    THEN "open_end"
    ELSE IF ~th.is_open_start /\ th.is_open_end
    THEN "open_start"
    ELSE IF ~th.is_open_start /\ ~th.is_open_end /\ th.start_date <= d /\ th.end_date >= d
    THEN "active"
    ELSE IF ~th.is_open_start /\ th.start_date > d
    THEN "upcoming"
    ELSE IF ~th.is_open_end /\ th.end_date < d
    THEN "expired"
    ELSE "unknown"

\* A plausible slip: the expired rule is tested before the upcoming rule.
ThreadStatusExpiredFirst(th, d) ==
    IF th.is_open_start /\ th.is_open_end
    THEN "open"
    ELSE IF th.is_open_start /\ ~th.is_open_end
    THEN "open_start"
    ELSE IF ~th.is_open_start /\ th.is_open_end
    THEN "open_end"
    ELSE IF ~th.is_open_start /\ ~th.is_open_end /\ th.start_date <= d /\ th.end_date >= d
    THEN "active"
    ELSE IF ~th.is_open_end /\ th.end_date < d
    THEN "expired"
    ELSE IF ~th.is_open_start /\ th.start_date > d
    THEN "upcoming"
    ELSE "unknown"

\* A plausible slip: the active rule compares strictly.
ThreadStatusStrictActive(th, d) ==
    IF th.is_open_start /\ th.is_open_end
    THEN "open"
    ELSE IF th.is_open_start /\ ~th.is_open_end
    THEN "open_start"
    ELSE IF ~th.is_open_start /\ th.is_open_end
    THEN "open_end"
    ELSE IF ~th.is_open_start /\ ~th.is_open_end /\ th.start_date < d /\ th.end_date > d
    THEN "active"
    ELSE IF ~th.is_open_start /\ th.start_date > d
    THEN "upcoming"
    ELSE IF ~th.is_open_end /\ th.end_date < d
    THEN "expired"
    ELSE "unknown"

\* A plausible slip: the two date comparisons of the last rules are turned
\* around.
ThreadStatusReversedDates(th, d) ==
    IF th.is_open_start /\ th.is_open_end
    THEN "open"
    ELSE IF th.is_open_start /\ ~th.is_open_end
    THEN "open_start"
    ELSE IF ~th.is_open_start /\ th.is_open_end
    THEN "open_end"
    ELSE IF ~th.is_open_start /\ ~th.is_open_end /\ th.start_date <= d /\ th.end_date >= d
    THEN "active"
    ELSE IF ~th.is_open_start /\ th.start_date < d
    THEN "upcoming"
    ELSE IF ~th.is_open_end /\ th.end_date > d
    THEN "expired"
    ELSE "unknown"

\* EducationThreadQuerySet.annotate_status: the Case expression, first matching
\* When wins; d is Now().cast('date').
ThreadStatus(th, d) ==
    IF th.is_open_start /\ th.is_open_end
    THEN "open"
    ELSE IF th.is_open_start /\ ~th.is_open_end
    THEN "open_start"
    ELSE IF ~th.is_open_start /\ th.is_open_end
    THEN "open_end"
    ELSE IF ~th.is_open_start /\ ~th.is_open_end /\ th.start_date <= d /\ th.end_date >= d
    THEN "active"
    ELSE IF ~th.is_open_start /\ th.start_date > d
    THEN "upcoming"
    ELSE IF ~th.is_open_end /\ th.end_date < d
    THEN "expired"
    ELSE "unknown"

\* A thread instance in memory, before it is validated: either date may be
\* missing (None).
ThreadInstances == [start_date : Days \cup {NULL}, end_date : Days \cup {NULL},
                    is_open_start : BOOLEAN, is_open_end : BOOLEAN]

\* A plausible slip: the end_date test comes first.
ThreadCleanEndFirst(th) ==
    IF ~th.is_open_end /\ th.end_date = NULL
    THEN "end_date"
    ELSE IF ~th.is_open_start /\ th.start_date = NULL
    THEN "start_date"
    ELSE "none"

\* EducationThread.clean: the field of the ValidationError it raises, "none"
\* when it returns without raising.  The first raise ends the method.
ThreadClean(th) ==
    IF ~th.is_open_start /\ th.start_date = NULL
    THEN "start_date"
    ELSE IF ~th.is_open_end /\ th.end_date = NULL
    THEN "end_date"
    ELSE "none"

\* clean() is called on instance th; it assigns nothing, so the instance is
\* afterwards as it was and no stored row changes.
CleanThread(th) ==
    /\ response' = [op |-> "clean", instance |-> th, error |-> ThreadClean(th)]
    /\ UNCHANGED <<now, accruals, accrual_seq, threads, thread_seq, contracts,
                   contract_seq>>

\* A thread is added through the admin form.
CreateThread(r) ==
    /\ thread_seq < MaxThreads
    /\ thread_seq' = thread_seq + 1
    /\ threads' = [threads EXCEPT ![thread_seq + 1] = r]
    /\ UNCHANGED <<now, accruals, accrual_seq, contracts, contract_seq>>
    /\ response' = NoResponse

\* A stored thread is edited through the admin form.
SaveThread(i, r) ==
    /\ threads[i].stored
    /\ threads' = [threads EXCEPT ![i] = r]
    /\ UNCHANGED <<now, accruals, accrual_seq, thread_seq, contracts, contract_seq>>
    /\ response' = NoResponse

DeleteThread(i) ==
    /\ threads[i].stored
    /\ threads' = [threads EXCEPT ![i] = NoRow]
    /\ UNCHANGED <<now, accruals, accrual_seq, thread_seq, contracts, contract_seq>>
    /\ response' = NoResponse

(***************************************************************************)
(* Contracts                                                               *)
(***************************************************************************)
ContractIds == 1 .. MaxContracts

\* hours_worked of the contract's PresenterHourlyContract, as the LEFT JOIN of
\* annotate_status yields it: NULL when the contract has no such row.
Hours == {0, 1}

\* Values of contract_id, the contract's own identifier (a CharField).
ContractKeys == 1 .. MaxContracts

\* BaseContract.CURRENCIES.
Currencies == {"RUB", "USD", "EUR"}

\* has_author tells whether an AuthorContract row has this contract as its
\* primary key.
ContractRows == [stored : {TRUE},
                 contract_id : ContractKeys,
                 currency : Currencies,
                 has_author : BOOLEAN,
                 replaced_contract : ContractIds \cup {NULL},
                 signed_at : Days \cup {NULL},
                 issue_at : Days \cup {NULL},
                 expire_at : Days \cup {NULL},
                 terminated_at : Days \cup {NULL},
                 hours_worked : Hours \cup {NULL}]

StoredContracts == {i \in ContractIds : contracts[i].stored}

\* A contract as the admin's add form first presents it: nothing filled in but
\* the required identifier and currency and the link to the contract it
\* replaces; no specialization row exists yet.
Draft(k, cur, r) ==
    [stored |-> TRUE, contract_id |-> k, currency |-> cur, has_author |-> FALSE,
     replaced_contract |-> r, signed_at |-> NULL, issue_at |-> NULL,
     expire_at |-> NULL, terminated_at |-> NULL, hours_worked |-> NULL]

\* A plausible slip: the date comparisons are inclusive.
ContractStatusInclusive(c, d) ==
    IF c.replaced_contract # NULL
    THEN "replaced"
    ELSE IF c.signed_at = NULL
    THEN "draft"
    ELSE IF c.issue_at # NULL /\ c.issue_at >= d
    THEN "suspended"
    ELSE IF c.expire_at # NULL /\ c.expire_at <= d
    THEN "completed"
    ELSE IF c.expire_at # NULL /\ c.expire_at <= d
            /\ c.hours_worked # NULL /\ c.hours_worked > 0
    THEN "partially_completed"
    ELSE IF c.terminated_at # NULL
    THEN "early_completed"
    ELSE "active"

\* A plausible slip: an early termination counts only once its date is reached.
ContractStatusTerminatedPast(c, d) ==
    IF c.replaced_contract # NULL
    THEN "replaced"
    ELSE IF c.signed_at = NULL
    THEN "draft"
    ELSE IF c.issue_at # NULL /\ c.issue_at > d
    THEN "suspended"
    ELSE IF c.expire_at # NULL /\ c.expire_at < d
    THEN "completed"
    ELSE IF c.expire_at # NULL /\ c.expire_at < d
            /\ c.hours_worked # NULL /\ c.hours_worked > 0
    THEN "partially_completed"
    ELSE IF c.terminated_at # NULL /\ c.terminated_at <= d
    THEN "early_completed"
    ELSE "active"

\* BaseContractQuerySet.annotate_status: the Case expression, first matching
\* When wins; d is Now().cast('date').  A comparison with a NULL column is not
\* true.
ContractStatus(c, d) ==
    IF c.replaced_contract # NULL
    THEN "replaced"
    ELSE IF c.signed_at = NULL
    THEN "draft"
    ELSE IF c.issue_at # NULL /\ c.issue_at > d
    THEN "suspended"
    ELSE IF c.expire_at # NULL /\ c.expire_at < d
    THEN "completed"
    ELSE IF c.expire_at # NULL /\ c.expire_at < d
            /\ c.hours_worked # NULL /\ c.hours_worked > 0
    THEN "partially_completed"
    ELSE IF c.terminated_at # NULL
    THEN "early_completed"
    ELSE "active"

\* The rows a ForeignKey to BaseContract may name: the stored ones.
ForeignKeyOk(r) == r = NULL \/ (r \in ContractIds /\ contracts[r].stored)

\* A plausible slip: contract_id without unique=True.
UniqueContractIdUnchecked(i, k) == TRUE

\* unique=True on contract_id: no stored contract other than i has identifier k.
UniqueContractId(i, k) ==
    \A j \in StoredContracts \ {i} : contracts[j].contract_id # k

\* The error a save gives back when field f is refused with value v.
Rejected(f, v) == [op |-> "rejected", field |-> f, value |-> v]

\* A contract is added; the primary key comes from the table's sequence and is
\* never reused.  replaced_contract is a plain ForeignKey('self'): any stored
\* contract may be named, and no other check is made.  A contract_id that a
\* stored contract already has is refused and nothing is stored.
CreateContract(row) ==
    /\ contract_seq < MaxContracts
    /\ ForeignKeyOk(row.replaced_contract)
    /\ IF UniqueContractId(contract_seq + 1, row.contract_id)
       THEN /\ contract_seq' = contract_seq + 1
            /\ contracts' = [contracts EXCEPT ![contract_seq + 1] = row]
            /\ response' = NoResponse
       ELSE /\ UNCHANGED <<contracts, contract_seq>>
            /\ response' = Rejected("contract_id", row.contract_id)
    /\ UNCHANGED <<now, accruals, accrual_seq, threads, thread_seq>>

\* A stored contract is saved with new field values; replaced_contract may name
\* any stored contract, the saved contract itself included.  A contract_id that
\* another stored contract has is refused and nothing is stored.
SaveContract(i, row) ==
    /\ contracts[i].stored
    /\ ForeignKeyOk(row.replaced_contract)
    /\ IF UniqueContractId(i, row.contract_id)
       THEN /\ contracts' = [contracts EXCEPT ![i] = row]
            /\ response' = NoResponse
       ELSE /\ UNCHANGED contracts
            /\ response' = Rejected("contract_id", row.contract_id)
    /\ UNCHANGED <<now, accruals, accrual_seq, threads, thread_seq, contract_seq>>

\* A plausible slip: the contract is looked up by its contract_id field instead
\* of its primary key.
ContractDetailsByContractId(a) ==
    IF \E j \in StoredContracts : contracts[j].contract_id = a.contract_id
    THEN LET j == CHOOSE j \in StoredContracts :
                      contracts[j].contract_id = a.contract_id
         IN  [contract_id |-> contracts[j].contract_id,
              currency |-> contracts[j].currency]
    ELSE [error |-> "not found"]

\* Accrual.get_contract_details of accrual row a: BaseContract.objects.get(id=
\* a.contract_id) and the two fields of the contract found, the error value when
\* DoesNotExist is caught.
ContractDetails(a) ==
    IF contracts[a.contract_id].stored
    THEN [contract_id |-> contracts[a.contract_id].contract_id,
          currency |-> contracts[a.contract_id].currency]
    ELSE [error |-> "not found"]

\* get_contract_details is called on stored accrual i; it only reads.
GetContractDetails(i) ==
    /\ accruals[i].stored
    /\ response' = [op |-> "get_contract_details", accrual |-> i,
                    value |-> ContractDetails(accruals[i])]
    /\ UNCHANGED <<now, accruals, accrual_seq, threads, thread_seq, contracts,
                   contract_seq>>

\* A contract is deleted: on_delete=SET_NULL clears replaced_contract of the
\* contracts that named it.
DeleteContract(i) ==
    /\ contracts[i].stored
    /\ contracts' = [j \in ContractIds |->
                        IF j = i
                        THEN NoRow
                        ELSE IF contracts[j].stored /\ contracts[j].replaced_contract = i
                             THEN [contracts[j] EXCEPT !.replaced_contract = NULL]
                             ELSE contracts[j]]
    /\ UNCHANGED <<now, accruals, accrual_seq, threads, thread_seq, contract_seq>>
    /\ response' = NoResponse

(***************************************************************************)
(* Specifications                                                          *)
(***************************************************************************)
Empty ==
    /\ now = Epoch
    /\ accruals = [i \in AccrualIds |-> NoRow]
    /\ accrual_seq = 0
    /\ threads = [i \in ThreadIds |-> NoRow]
    /\ thread_seq = 0
    /\ contracts = [i \in ContractIds |-> NoRow]
    /\ contract_seq = 0
    /\ response = NoResponse

\* Accruals: added, edited and deleted while the clock advances.  contract_id
\* plays no part in the status and is left at 1.
InitAccrual == Empty

AddAccrual == \E c, p \in Stamps \cup {NULL} : CreateAccrual(1, c, p)

EditAccrual ==
    \E i \in AccrualIds : \E c, p \in Stamps \cup {NULL} :
        SaveAccrual(i, accruals[i].contract_id, c, p)

RemoveAccrual == \E i \in AccrualIds : DeleteAccrual(i)

NextAccrual == AddAccrual \/ EditAccrual \/ RemoveAccrual \/ Tick

SpecAccrual == InitAccrual /\ [][NextAccrual]_vars

\* Threads: added, edited and deleted while the clock advances.
InitThread == Empty

AddThread == \E r \in ThreadRows : CreateThread(r)

EditThread == \E i \in ThreadIds : \E r \in ThreadRows : SaveThread(i, r)

RemoveThread == \E i \in ThreadIds : DeleteThread(i)

NextThread == AddThread \/ EditThread \/ RemoveThread \/ Tick

SpecThread == InitThread /\ [][NextThread]_vars

\* Thread clock: one stored thread whose fields stay as they are while the
\* clock advances through the whole period.
InitThreadClock ==
    /\ now = Epoch
    /\ accruals = [i \in AccrualIds |-> NoRow]
    /\ accrual_seq = 0
    /\ threads \in [ThreadIds -> ThreadRows]
    /\ thread_seq = MaxThreads
    /\ contracts = [i \in ContractIds |-> NoRow]
    /\ contract_seq = 0
    /\ response = NoResponse

NextThreadClock == Tick

SpecThreadClock == InitThreadClock /\ [][NextThreadClock]_vars

\* The status of one contract: any stored contract, its fields edited one at a
\* time while the clock advances.
InitContractStatus ==
    /\ now = Epoch
    /\ accruals = [i \in AccrualIds |-> NoRow]
    /\ accrual_seq = 0
    /\ threads = [i \in ThreadIds |-> NoRow]
    /\ thread_seq = 0
    /\ contract_seq = 1
    /\ response = NoResponse
    /\ \E row \in ContractRows :
          /\ row.replaced_contract \in {NULL, 1}
          /\ row.contract_id = 1
          /\ row.currency = "RUB"
          /\ ~row.has_author
          /\ contracts = [i \in ContractIds |-> IF i = 1 THEN row ELSE NoRow]

EditReplaced ==
    \E i \in ContractIds : \E r \in ContractIds \cup {NULL} :
        SaveContract(i, [contracts[i] EXCEPT !.replaced_contract = r])

EditSigned ==
    \E i \in ContractIds : \E v \in Days \cup {NULL} :
        SaveContract(i, [contracts[i] EXCEPT !.signed_at = v])

EditIssue ==
    \E i \in ContractIds : \E v \in Days \cup {NULL} :
        SaveContract(i, [contracts[i] EXCEPT !.issue_at = v])

EditExpire ==
    \E i \in ContractIds : \E v \in Days \cup {NULL} :
        SaveContract(i, [contracts[i] EXCEPT !.expire_at = v])

EditTerminated ==
    \E i \in ContractIds : \E v \in Days \cup {NULL} :
        SaveContract(i, [contracts[i] EXCEPT !.terminated_at = v])

EditHours ==
    \E i \in ContractIds : \E v \in Hours \cup {NULL} :
        SaveContract(i, [contracts[i] EXCEPT !.hours_worked = v])

NextContractStatus ==
    EditReplaced \/ EditSigned \/ EditIssue \/ EditExpire \/ EditTerminated
        \/ EditHours \/ Tick

SpecContractStatus == InitContractStatus /\ [][NextContractStatus]_vars

\* The links between contracts and their identifiers: contracts added,
\* relinked, renamed and deleted.  The date fields and the currency play no part
\* in either and stay as the add form presents them.
InitContract == Empty

AddContract ==
    \E k \in ContractKeys : \E r \in ContractIds \cup {NULL} :
        CreateContract(Draft(k, "RUB", r))

EditContractId ==
    \E i \in ContractIds : \E k \in ContractKeys :
        SaveContract(i, [contracts[i] EXCEPT !.contract_id = k])

RemoveContract == \E i \in ContractIds : DeleteContract(i)

NextContract == AddContract \/ EditReplaced \/ EditContractId \/ RemoveContract

SpecContract == InitContract /\ [][NextContract]_vars

\* The specializations of contracts: contracts added under their own identifier
\* and deleted, PresenterHourlyContract rows (hours_worked) and AuthorContract
\* rows (has_author) added to and removed from stored contracts.  Each of the two
\* is a OneToOneField with primary_key=True and on_delete=CASCADE: a contract has
\* at most one row of each model, and the rows go when the contract goes.
InitSpecialization == Empty

AddOwnContract == CreateContract(Draft(contract_seq + 1, "RUB", NULL))

EditAuthor ==
    \E i \in ContractIds : \E b \in BOOLEAN :
        SaveContract(i, [contracts[i] EXCEPT !.has_author = b])

NextSpecialization == AddOwnContract \/ EditHours \/ EditAuthor \/ RemoveContract

SpecSpecialization == InitSpecialization /\ [][NextSpecialization]_vars

\* Accruals and the contracts they name: contracts added under any identifier
\* and currency and deleted, accruals added for any contract number, moved to
\* another number and deleted.  The timestamps play no part and stay unset.
InitLedger == Empty

LedgerCurrencies == {"RUB", "USD"}

AddLedgerContract ==
    \E k \in ContractKeys : \E cur \in LedgerCurrencies :
        CreateContract(Draft(k, cur, NULL))

AddLedgerAccrual == \E k \in ContractIds : CreateAccrual(k, NULL, NULL)

MoveAccrual ==
    \E i \in AccrualIds : \E k \in ContractIds :
        SaveAccrual(i, k, accruals[i].confirmed_at, accruals[i].paid_at)

AskContractDetails == \E i \in AccrualIds : GetContractDetails(i)

NextLedger ==
    AddLedgerContract \/ RemoveContract \/ AddLedgerAccrual \/ MoveAccrual
        \/ RemoveAccrual \/ AskContractDetails

SpecLedger == InitLedger /\ [][NextLedger]_vars

\* Validation of thread instances: clean() called on any instance at any time.
InitClean == Empty

ValidateThread == \E th \in ThreadInstances : CleanThread(th)

NextClean == ValidateThread \/ Tick

SpecClean == InitClean /\ [][NextClean]_vars

(***************************************************************************)
(* Properties                                                              *)
(***************************************************************************)
\* Age of a confirmation at the current tick: now - confirmed_at.
Age(a) == now - a.confirmed_at

\* C1: every stored accrual whose paid_at is set has status 'paid', whatever
\* confirmed_at and the clock are, both by Accrual.status and by the
\* status_annotation of annotate_status.
C1_PaidWins ==
    \A i \in StoredAccruals :
        accruals[i].paid_at # NULL =>
            /\ AccrualStatus(accruals[i], now) = "paid"
            /\ AccrualStatusAnnotation(accruals[i], now) = "paid"

\* A paid accrual whose confirmation is older than thirty days.
C1_Witness ==
    \E i \in StoredAccruals :
        /\ accruals[i].paid_at # NULL
        /\ accruals[i].confirmed_at # NULL
        /\ Age(accruals[i]) > ThirtyDays

\* C2: for every stored accrual with confirmed_at set and paid_at unset, the
\* status (property and annotation) is 'overdue' exactly when now - confirmed_at
\* is strictly greater than thirty days.
C2_OverdueStrict ==
    \A i \in StoredAccruals :
        (accruals[i].confirmed_at # NULL /\ accruals[i].paid_at = NULL) =>
            /\ AccrualStatus(accruals[i], now) = "overdue"
                   <=> Age(accruals[i]) > ThirtyDays
            /\ AccrualStatusAnnotation(accruals[i], now) = "overdue"
                   <=> Age(accruals[i]) > ThirtyDays

\* An unpaid accrual confirmed exactly thirty days ago.
C2_Witness ==
    \E i \in StoredAccruals :
        /\ accruals[i].confirmed_at # NULL
        /\ accruals[i].paid_at = NULL
        /\ Age(accruals[i]) = ThirtyDays

\* C3: every stored accrual with confirmed_at set, paid_at unset and
\* now - confirmed_at at most thirty days has status 'confirmed' (property and
\* annotation).
C3_Confirmed ==
    \A i \in StoredAccruals :
        (/\ accruals[i].confirmed_at # NULL
         /\ accruals[i].paid_at = NULL
         /\ Age(accruals[i]) <= ThirtyDays) =>
            /\ AccrualStatus(accruals[i], now) = "confirmed"
            /\ AccrualStatusAnnotation(accruals[i], now) = "confirmed"

\* An unpaid accrual confirmed one tick less than thirty days ago.
C3_Witness ==
    \E i \in StoredAccruals :
        /\ accruals[i].confirmed_at # NULL
        /\ accruals[i].paid_at = NULL
        /\ Age(accruals[i]) = ThirtyDays - 1

AccrualStatuses == {"pending", "confirmed", "overdue", "paid"}

\* C4: a stored accrual has status 'pending' if and only if confirmed_at and
\* paid_at are both unset, and its status is always one of pending, confirmed,
\* overdue, paid (property and annotation).
C4_PendingIffUnset ==
    \A i \in StoredAccruals :
        /\ AccrualStatus(accruals[i], now) \in AccrualStatuses
        /\ AccrualStatusAnnotation(accruals[i], now) \in AccrualStatuses
        /\ AccrualStatus(accruals[i], now) = "pending"
               <=> (accruals[i].confirmed_at = NULL /\ accruals[i].paid_at = NULL)
        /\ AccrualStatusAnnotation(accruals[i], now) = "pending"
               <=> (accruals[i].confirmed_at = NULL /\ accruals[i].paid_at = NULL)

\* An accrual with neither timestamp, after the clock has advanced.
C4_Witness ==
    \E i \in StoredAccruals :
        /\ accruals[i].confirmed_at = NULL
        /\ accruals[i].paid_at = NULL
        /\ now > Epoch

\* Row b keeps every timestamp row a has: timestamps are set, never cleared or
\* moved.
OnlySet(a, b) ==
    /\ a.confirmed_at # NULL => b.confirmed_at = a.confirmed_at
    /\ a.paid_at # NULL => b.paid_at = a.paid_at

\* Status s2 does not fall behind status s.
Forward(s, s2) ==
    /\ s # "pending" => s2 # "pending"
    /\ s = "overdue" => s2 # "confirmed"
    /\ s = "paid" => s2 = "paid"

\* C5: in every step that only sets timestamps of an accrual and does not turn
\* the clock back, the status of the accrual does not return to 'pending', does
\* not go from 'overdue' to 'confirmed' and does not leave 'paid'.
C5_ForwardOnly ==
    [][\A i \in AccrualIds :
          (/\ accruals[i].stored
           /\ accruals'[i].stored
           /\ OnlySet(accruals[i], accruals'[i])
           /\ now' >= now) =>
              Forward(AccrualStatus(accruals[i], now),
                      AccrualStatus(accruals'[i], now'))]_vars

\* An unpaid accrual confirmed exactly thirty days before the period began has
\* become overdue with the first tick of the clock.
C5_Witness ==
    \E i \in StoredAccruals :
        /\ accruals[i].confirmed_at = Epoch - ThirtyDays
        /\ accruals[i].paid_at = NULL
        /\ now = Epoch + 1
        /\ AccrualStatus(accruals[i], now) = "overdue"

\* C6: every stored thread with is_open_start and is_open_end both true has the
\* annotated status 'open', whatever its dates and the current date.
C6_BothOpen ==
    \A i \in StoredThreads :
        (threads[i].is_open_start /\ threads[i].is_open_end) =>
            ThreadStatus(threads[i], Today) = "open"

\* A thread open on both sides whose end_date has passed.
C6_Witness ==
    \E i \in StoredThreads :
        /\ threads[i].is_open_start
        /\ threads[i].is_open_end
        /\ threads[i].end_date < Today

\* C7: a stored thread with only is_open_start true has the annotated status
\* 'open_start' and one with only is_open_end true has 'open_end', whatever the
\* date on the side that is not open.
C7_OneSideOpen ==
    \A i \in StoredThreads :
        /\ (threads[i].is_open_start /\ ~threads[i].is_open_end) =>
               ThreadStatus(threads[i], Today) = "open_start"
        /\ (~threads[i].is_open_start /\ threads[i].is_open_end) =>
               ThreadStatus(threads[i], Today) = "open_end"

\* A thread open at the start only, seen after its end_date.
C7_Witness ==
    \E i \in StoredThreads :
        /\ threads[i].is_open_start
        /\ ~threads[i].is_open_end
        /\ threads[i].end_date < Today

\* C8: a stored thread with both flags false is 'active' when
\* start_date <= today <= end_date, 'upcoming' when today < start_date and
\* 'expired' when today > end_date and start_date <= today; with
\* start_date > end_date and today between them it is 'upcoming'.
C8_DateWindow ==
    \A i \in StoredThreads :
        (~threads[i].is_open_start /\ ~threads[i].is_open_end) =>
            /\ (threads[i].start_date <= Today /\ Today <= threads[i].end_date) =>
                   ThreadStatus(threads[i], Today) = "active"
            /\ Today < threads[i].start_date =>
                   ThreadStatus(threads[i], Today) = "upcoming"
            /\ (Today > threads[i].end_date /\ threads[i].start_date <= Today) =>
                   ThreadStatus(threads[i], Today) = "expired"
            /\ (/\ threads[i].start_date > threads[i].end_date
                /\ threads[i].end_date < Today
                /\ Today < threads[i].start_date) =>
                   ThreadStatus(threads[i], Today) = "upcoming"

\* A thread that starts after it ends, seen on a day between the two dates.
C8_Witness ==
    \E i \in StoredThreads :
        /\ ~threads[i].is_open_start
        /\ ~threads[i].is_open_end
        /\ threads[i].end_date < Today
        /\ Today < threads[i].start_date

\* C9: the annotated status of a stored contract is decided by the first rule
\* that matches: replaced_contract set, 'replaced'; signed_at unset, 'draft';
\* issue_at set and later than today, 'suspended'; expire_at set and earlier
\* than today, 'completed'; otherwise, with terminated_at unset, 'active'.
C9_FirstMatch ==
    \A i \in StoredContracts :
        LET c == contracts[i]
            st == ContractStatus(c, Today)
            replaced == c.replaced_contract # NULL
            unsigned == c.signed_at = NULL
            notYet == c.issue_at # NULL /\ c.issue_at > Today
            over == c.expire_at # NULL /\ c.expire_at < Today
        IN  /\ replaced => st = "replaced"
            /\ (~replaced /\ unsigned) => st = "draft"
            /\ (~replaced /\ ~unsigned /\ notYet) => st = "suspended"
            /\ (~replaced /\ ~unsigned /\ ~notYet /\ over) => st = "completed"
            /\ (~replaced /\ ~unsigned /\ ~notYet /\ ~over /\ c.terminated_at = NULL) =>
                   st = "active"

\* A signed contract that replaces none, was issued earlier, is not terminated
\* and expires today.
C9_Witness ==
    \E i \in StoredContracts :
        /\ contracts[i].replaced_contract = NULL
        /\ contracts[i].signed_at # NULL
        /\ contracts[i].issue_at # NULL
        /\ contracts[i].issue_at < Today
        /\ contracts[i].expire_at = Today
        /\ contracts[i].terminated_at = NULL

\* The contract reached from contract i by following replaced_contract n times,
\* NULL when the chain ends before.
RECURSIVE Follow(_, _)
Follow(i, n) ==
    IF n = 0
    THEN i
    ELSE LET j == Follow(i, n - 1)
         IN  IF j = NULL THEN NULL ELSE contracts[j].replaced_contract

NoCycle ==
    \A i \in StoredContracts : \A n \in 1 .. MaxContracts : Follow(i, n) # i

NoSharedPredecessor ==
    \A i, j \in StoredContracts :
        (/\ i # j
         /\ contracts[i].replaced_contract # NULL
         /\ contracts[j].replaced_contract # NULL) =>
            contracts[i].replaced_contract # contracts[j].replaced_contract

\* C10: the replaced_contract links always form a linear chain: no contract
\* reaches itself by following the links, and no two distinct contracts name the
\* same replaced_contract.
C10_LinearChain == NoCycle /\ NoSharedPredecessor

\* A save was refused because of contract_id.
RefusedContractId == response.op = "rejected" /\ response.field = "contract_id"

UniqueContractIds ==
    \A i, j \in StoredContracts :
        i # j => contracts[i].contract_id # contracts[j].contract_id

\* C11: no two stored contracts ever have the same contract_id; a create or
\* update is refused because of contract_id only when another stored contract
\* has that contract_id, and a refused request leaves the stored contracts
\* unchanged.
C11_UniqueContractId ==
    /\ []UniqueContractIds
    /\ [][RefusedContractId' =>
            /\ contracts' = contracts
            /\ \E j \in StoredContracts : contracts[j].contract_id = response'.value]_vars

\* A request has just been refused for a contract_id that a stored contract has,
\* while a second contract is stored under another contract_id.
C11_Witness ==
    /\ RefusedContractId
    /\ \E i, j \in StoredContracts :
          /\ i # j
          /\ contracts[i].contract_id = response.value

\* C12: every specialization row belongs to exactly one stored contract, no
\* row outlives its contract, and every stored contract has at most one
\* specialization.
C12_OneSpecialization ==
    \A i \in ContractIds :
        /\ ~contracts[i].stored => contracts[i] = NoRow
        /\ contracts[i].stored =>
               ~(contracts[i].hours_worked # NULL /\ contracts[i].has_author)

\* C13: the contract_id of every stored accrual is the primary key of a stored
\* BaseContract.
C13_AccrualContractExists ==
    \A i \in StoredAccruals : contracts[accruals[i].contract_id].stored

\* C14: for each of paid, confirmed, overdue and pending, by_status returns
\* exactly the stored accruals whose Accrual.status is that status, so the four
\* results are pairwise disjoint and cover the stored accruals; for any other
\* status it returns nothing.
C14_ByStatusIsStatus ==
    /\ \A st \in AccrualStatuses :
          ByStatus(st, now) =
              {i \in StoredAccruals : AccrualStatus(accruals[i], now) = st}
    /\ \A st, su \in AccrualStatuses :
          st # su => ByStatus(st, now) \cap ByStatus(su, now) = {}
    /\ UNION {ByStatus(st, now) : st \in AccrualStatuses} = StoredAccruals
    /\ ByStatus("cancelled", now) = {}

\* C15: for every stored accrual and every tick, Accrual.status equals the
\* status_annotation that annotate_status gives the same accrual.
C15_StatusAgrees ==
    \A i \in StoredAccruals :
        AccrualStatus(accruals[i], now) = AccrualStatusAnnotation(accruals[i], now)

\* An unpaid accrual confirmed one tick more than thirty days ago.
C15_Witness ==
    \E i \in StoredAccruals :
        /\ accruals[i].confirmed_at # NULL
        /\ accruals[i].paid_at = NULL
        /\ Age(accruals[i]) = ThirtyDays + 1

\* C16: a signed contract that replaces none, whose expire_at is in the past and
\* whose PresenterHourlyContract has hours_worked > 0, has the annotated status
\* 'partially_completed'.
C16_PartiallyCompleted ==
    \A i \in StoredContracts :
        (/\ contracts[i].replaced_contract = NULL
         /\ contracts[i].signed_at # NULL
         /\ contracts[i].expire_at # NULL
         /\ contracts[i].expire_at < Today
         /\ contracts[i].hours_worked # NULL
         /\ contracts[i].hours_worked > 0) =>
            ContractStatus(contracts[i], Today) = "partially_completed"

\* A signed contract that replaces none and has terminated_at set.
Terminated(c) ==
    c.replaced_contract = NULL /\ c.signed_at # NULL /\ c.terminated_at # NULL

\* C17 as stated: a signed contract that replaces none and has terminated_at set
\* has the annotated status 'early_completed', whatever issue_at and expire_at
\* are.
C17_EarlyCompletedAlways ==
    \A i \in StoredContracts :
        Terminated(contracts[i]) =>
            ContractStatus(contracts[i], Today) = "early_completed"

\* C17 as amended: a signed contract that replaces none and has terminated_at
\* set has the annotated status 'early_completed' when issue_at is unset or not
\* later than today and expire_at is unset or not earlier than today; with
\* issue_at later than today it is 'suspended', otherwise with expire_at earlier
\* than today it is 'completed'.
C17_EarlyCompleted ==
    \A i \in StoredContracts :
        LET c == contracts[i]
            st == ContractStatus(c, Today)
            notYet == c.issue_at # NULL /\ c.issue_at > Today
            over == c.expire_at # NULL /\ c.expire_at < Today
        IN  Terminated(c) =>
                /\ (~notYet /\ ~over) => st = "early_completed"
                /\ notYet => st = "suspended"
                /\ (~notYet /\ over) => st = "completed"

\* A terminated contract that expires today and whose termination date is still
\* ahead.
C17_Witness ==
    \E i \in StoredContracts :
        /\ Terminated(contracts[i])
        /\ contracts[i].issue_at = NULL
        /\ contracts[i].expire_at = Today
        /\ contracts[i].terminated_at > Today

\* clean() has just been called.
Cleaned == response.op = "clean"

\* C18: clean raises a ValidationError on start_date when is_open_start is false
\* and start_date is missing, also when end_date is missing as well; otherwise
\* it raises one on end_date when is_open_end is false and end_date is missing;
\* it accepts every other thread, one with start_date later than end_date
\* included; and it changes neither the instance nor any stored row.
C18_Clean ==
    /\ [](Cleaned =>
            LET th == response.instance
                noStart == ~th.is_open_start /\ th.start_date = NULL
                noEnd == ~th.is_open_end /\ th.end_date = NULL
            IN  /\ noStart => response.error = "start_date"
                /\ (~noStart /\ noEnd) => response.error = "end_date"
                /\ (~noStart /\ ~noEnd) => response.error = "none")
    /\ [][Cleaned' => UNCHANGED <<threads, thread_seq, accruals, accrual_seq,
                                  contracts, contract_seq>>]_vars

\* clean() was called on a thread with neither flag and neither date.
C18_Witness ==
    /\ Cleaned
    /\ ~response.instance.is_open_start
    /\ ~response.instance.is_open_end
    /\ response.instance.start_date = NULL
    /\ response.instance.end_date = NULL
    /\ response.error = "start_date"

\* get_contract_details has just been called.
Asked == response.op = "get_contract_details"

\* C19: get_contract_details returns the contract_id and currency of the stored
\* BaseContract whose primary key is the accrual's contract_id, returns an error
\* value when no such contract is stored, and changes no stored row.
C19_ContractDetails ==
    /\ [](Asked =>
            LET k == accruals[response.accrual].contract_id
            IN  IF contracts[k].stored
                THEN /\ DOMAIN response.value = {"contract_id", "currency"}
                     /\ response.value.contract_id = contracts[k].contract_id
                     /\ response.value.currency = contracts[k].currency
                ELSE DOMAIN response.value = {"error"})
    /\ [][Asked' => UNCHANGED <<accruals, accrual_seq, contracts, contract_seq,
                                threads, thread_seq>>]_vars

\* The error value was returned for an accrual whose contract was deleted, while
\* another contract is stored.
C19_Witness ==
    /\ Asked
    /\ DOMAIN response.value = {"error"}
    /\ accruals[response.accrual].contract_id <= contract_seq
    /\ StoredContracts # {}

ThreadStatuses == {"open", "open_start", "open_end", "active", "upcoming", "expired"}

\* C20: the annotated status of every stored thread is one of open, open_start,
\* open_end, active, upcoming, expired, never the fallback 'unknown', for every
\* combination of the flags, the two dates and the current date.
C20_NeverUnknown ==
    \A i \in StoredThreads : ThreadStatus(threads[i], Today) \in ThreadStatuses

\* A thread with neither flag that starts and ends today.
C20_Witness ==
    \E i \in StoredThreads :
        /\ ~threads[i].is_open_start
        /\ ~threads[i].is_open_end
        /\ threads[i].start_date = Today
        /\ threads[i].end_date = Today

\* The status the dates of thread th give on day d when neither flag is set.
ThreadPhase(th, d) ==
    IF d < th.start_date
    THEN "upcoming"
    ELSE IF d <= th.end_date
    THEN "active"
    ELSE "expired"

\* Thread status s2 does not fall behind thread status s.
ThreadForward(s, s2) ==
    /\ s = "active" => s2 # "upcoming"
    /\ s = "expired" => s2 = "expired"

\* C21: in every step that leaves a stored thread's fields as they are and
\* does not turn the clock back, a thread with an open flag keeps its annotated
\* status, and a thread with neither flag and start_date <= end_date is
\* 'upcoming' before start_date, 'active' from start_date through end_date and
\* 'expired' afterwards, never going from 'expired' back to 'active' or
\* 'upcoming' nor from 'active' back to 'upcoming'.
C21_ThreadForwardOnly ==
    [][\A i \in ThreadIds :
          (/\ threads[i].stored
           /\ threads'[i] = threads[i]
           /\ now' >= now) =>
              IF threads[i].is_open_start \/ threads[i].is_open_end
              THEN ThreadStatus(threads[i], DateOf(now')) =
                       ThreadStatus(threads[i], DateOf(now))
              ELSE threads[i].start_date <= threads[i].end_date =>
                       /\ ThreadStatus(threads[i], DateOf(now)) =
                              ThreadPhase(threads[i], DateOf(now))
                       /\ ThreadStatus(threads[i], DateOf(now')) =
                              ThreadPhase(threads[i], DateOf(now'))
                       /\ ThreadForward(ThreadStatus(threads[i], DateOf(now)),
                                        ThreadStatus(threads[i], DateOf(now')))]_vars

\* A thread with neither flag that started and ended on the second day of the
\* period has expired: the clock has carried it through 'upcoming' and
\* 'active'.
C21_Witness ==
    \E i \in StoredThreads :
        /\ ~threads[i].is_open_start
        /\ ~threads[i].is_open_end
        /\ threads[i].start_date = FirstDay + 1
        /\ threads[i].end_date = FirstDay + 1
        /\ Today > FirstDay + 1
        /\ ThreadStatus(threads[i], Today) = "expired"

====
